---- MODULE Spec2Model ----
(***************************************************************************)
(* Model of react-native-nitro-cloud-uploader: the multipart upload engine *)
(* in its two native implementations,                                      *)
(*   ios/NitroCloudUploader.swift            (NitroCloudUploader +         *)
(*                                            UploadSession)               *)
(*   android/.../UploadForegroundService.kt  (NitroCloudUploader, Kotlin   *)
(*                                            coroutines)                  *)
(* One behaviour runs one platform (variable platform, fixed by Init).     *)
(* Sessions are numbered in creation order; sess[s] is the s-th session    *)
(* object created by startUpload.                                          *)
(***************************************************************************)
EXTENDS Integers, Sequences, FiniteSets, TLC

(* ---------------------------- bounds ---------------------------------- *)
\* upload sessions created in one behaviour
MaxSessions == 1
\* distinct uploadId values the caller uses
MaxIds == 1
\* largest number of upload URLs (parts) of one upload
MaxParts == 2
\* largest maxParallel the caller passes
MaxParallelArg == 2
\* control calls and connectivity events in one behaviour
MaxOps == 3
\* failed part attempts the transport produces in one behaviour
MaxFailures == 3
\* control calls and connectivity events where pause / resume are repeated
MaxOpsRetry == 4
\* distinct uploadId strings
MaxKeys == 3
\* uploadIds in use when callers upload several files
MaxIdsMulti == 2
\* files of up to this many MiB, and uploads of up to this many presigned URLs
MaxPlanMiB == 16
MaxPlanParts == 4
\* a maxParallel above the documented range
LargeParallel == 25
\* responses the transport delivers in one behaviour
MaxResponses == 8
\* an upload of more parts than the documented pool holds: its parts, the MiB
\* of its file, the responses the transport delivers to it
WideParts == 11
WideFileMiB == 55
WideResponses == 2
\* parts of each of those files
MaxPartsMulti == 1
\* budgets of the behaviours where an uploadId is used again
MaxSessionsReuse == 2
MaxOpsReuse == 2
MaxFailuresReuse == 0

(* ------------------------ program constants --------------------------- *)
MiB == 1048576
\* Kotlin MIN_CHUNK_SIZE, Swift UploadSession.minimumChunkSize
MIN_CHUNK_SIZE == 5 * MiB
\* Kotlin MAX_RETRIES
MAX_RETRIES == 3
\* maxParallel ?? 3
DefaultParallel == 3

\* the keys the registry tables are indexed by (an absent key maps to 0)
AllIds == 1..MaxKeys
\* file sizes the caller's files have (bytes)
FileSizes == {11 * MiB}

VARIABLES
    platform,            \* "ios" or "android"
    env,                 \* what the callers of this behaviour pass: [ids, files, parts, parallel]
                         \* and how many responses the transport delivers
    sess,                \* sequence of session objects, in creation order
    currentUpload,       \* iOS: NitroCloudUploader.currentUpload (0 = nil)
    activeUploads,       \* Android: uploadId -> session owning the UploadJob (0 = absent)
    uploadStates,        \* Android: uploadId -> session owning the UploadStateData (0 = absent)
    isNetworkAvailable,  \* both platforms
    jsCall,              \* Android: session whose startUpload is between launch and registration (0 = none)
    emitted,             \* events handed to emitEvent by the last step, in order
    lastCall,            \* the most recent API call and what it returned
    cancelled,           \* uploadIds for which cancelUpload returned and no startUpload was accepted since
    sessLeft,            \* remaining accepted startUpload calls
    opsLeft,             \* remaining control calls / connectivity events
    failsLeft            \* remaining failed attempts of the transport

vars == <<platform, env, sess, currentUpload, activeUploads, uploadStates,
          isNetworkAvailable, jsCall, emitted, lastCall, cancelled,
          sessLeft, opsLeft, failsLeft>>

\* the uploadIds the callers of this behaviour use
Ids == env.ids

(* ----------------------------- helpers -------------------------------- *)
Min(a, b) == IF a < b THEN a ELSE b
Max(a, b) == IF a > b THEN a ELSE b
CeilDiv(a, b) == (a + b - 1) \div b

\* an event as handed to emitEvent; sid is the session whose code or whose
\* registry entry caused it (0: none), arg is chunkIndex or bytesUploaded
Ev(type, id, sid, arg) == [type |-> type, uploadId |-> id, sid |-> sid, arg |-> arg]

\* the ETag header the storage service returns for a PUT to the URL of part
\* number pn of session s: a quoted token
ServerETag(s, pn) == [up |-> s, part |-> pn, quoted |-> TRUE]
\* the empty string
NoETag == [up |-> 0, part |-> 0, quoted |-> FALSE]

NoCall == [op |-> "none", uploadId |-> 0, result |-> "none"]
Call(op, id, result) == [op |-> op, uploadId |-> id, result |-> result]

NoChunk == -1
\* maxParallel: Double? when the caller leaves it out
Omitted == -1
\* the uploadId that is the empty string
EmptyId == MaxKeys
\* a file argument is the length of the file at filePath, or one of: no file
\* at that path, filePath is the empty string
NoFile == -1
EmptyPath == -2
NoResult == [kind |-> "none", success |-> FALSE, etags |-> <<>>]
NoPromise == [status |-> "pending", success |-> FALSE, etags |-> <<>>, error |-> "none"]

TerminalEvents == {"upload-completed", "upload-failed", "upload-cancelled"}

(* ======================================================================= *)
(*                                  iOS                                    *)
(* ======================================================================= *)

\* let parallel = Int(maxParallel ?? 3)
IosParallel(maxParallel) ==
    IF maxParallel = Omitted THEN DefaultParallel ELSE maxParallel

\* UploadSession.init: chunkSize = max(ceil(fileSize / urls), 5 MB)
IosChunkSize(fileSize, n) == Max(CeilDiv(fileSize, n), MIN_CHUNK_SIZE)

\* startUpload: the three guards on empty arguments
IosArgsValid(id, file, n) == id # EmptyId /\ file # EmptyPath /\ n > 0

\* UploadSession.init: FileManager.default.fileExists(atPath:)
IosFileFound(file) == file >= 0

\* UploadSession.init: the file must hold (urls - 1) minimum chunks
IosFileLargeEnough(fileSize, n) == fileSize >= (n - 1) * MIN_CHUNK_SIZE

\* uploadChunk / didCompleteWithError: size of chunk index
IosPartSize(S, index) == Min(S.chunkSize, S.totalBytes - index * S.chunkSize)

\* uploadChunk: offset of chunk index
IosOffset(S, index) == index * S.chunkSize

\* keys of activeTasks
IosActive(S) == {i \in 0..(S.n - 1) : S.task[i] # "none"}

\* UploadSession.init; queue is the serial DispatchQueue of the session (stuck:
\* its running block does not return); pc, promise belong to the startUpload
\* call that owns the session; attempts .. seen are history of the session: tasks started and
\* failed per chunk, who caused the pause in effect, whether pauseUpload was
\* the last pause/resume call, whether a pauseUpload found chunks left to
\* upload, what cancelUpload found (a session not yet
\* terminal, a task in flight), the event types emitted
IosNewSession(id, fileSize, n, parallel) ==
    [uploadId |-> id, n |-> n, maxParallel |-> parallel,
     totalBytes |-> fileSize, chunkSize |-> IosChunkSize(fileSize, n),
     state |-> "idle", isPaused |-> FALSE,
     task |-> [i \in 0..(n - 1) |-> "none"],
     completedChunks |-> {},
     etags |-> [i \in 0..(n - 1) |-> NoETag],
     bytesUploaded |-> 0,
     hasResumedContinuation |-> FALSE,
     result |-> NoResult,
     queue |-> <<>>, stuck |-> FALSE,
     pc |-> "awaiting",
     promise |-> NoPromise,
     attempts |-> [i \in 0..(n - 1) |-> 0],
     nfail |-> [i \in 0..(n - 1) |-> 0],
     pausedBy |-> "none", userPaused |-> FALSE,
     pauseLive |-> FALSE, lastProgress |-> 0, registered |-> FALSE,
     cancelAsked |-> FALSE, cancelLive |-> FALSE, cancelInFlight |-> FALSE,
     seen |-> {}]

\* chunks whose upload task has been started and has not finished
IosInFlight(S) == {i \in 0..(S.n - 1) : S.task[i] \in {"running", "suspended"}}

\* tasks of session S the transport has answered: those created less those
\* still running or suspended
RECURSIVE IosStarted(_, _)
IosStarted(S, k) == IF k = 0 THEN 0 ELSE IosStarted(S, k - 1) + S.attempts[k - 1]
IosResponses(S) == IosStarted(S, S.n) - Cardinality(IosInFlight(S))

\* getNextChunkIndex: the indices it can return
IosPending(S) == {i \in 0..(S.n - 1) : i \notin S.completedChunks /\ S.task[i] = "none"}

\* the etags array as the sequence handed to UploadResult
IosEtagSeq(S) == [k \in 1..S.n |-> S.etags[k - 1]]

\* complete(): guarded by hasResumedContinuation
IosComplete(S) ==
    IF S.hasResumedContinuation THEN S
    ELSE [S EXCEPT !.hasResumedContinuation = TRUE, !.state = "completed",
                   !.result = [kind |-> "returned", success |-> TRUE, etags |-> IosEtagSeq(S)]]

\* fail(with:): guarded by hasResumedContinuation
IosFail(S) ==
    IF S.hasResumedContinuation THEN S
    ELSE [S EXCEPT !.hasResumedContinuation = TRUE, !.state = "failed",
                   !.result = [kind |-> "thrown", success |-> FALSE, etags |-> <<>>]]

\* the loop of uploadNextChunks: fill activeTasks up to maxParallel with the
\* lowest pending indices; complete() when nothing is pending or active
RECURSIVE IosFill(_)
IosFill(S) ==
    IF Cardinality(IosActive(S)) >= S.maxParallel THEN S
    ELSE IF IosPending(S) = {} THEN
            (IF IosActive(S) = {} THEN IosComplete(S) ELSE S)
    ELSE LET i == CHOOSE x \in IosPending(S) : \A y \in IosPending(S) : x <= y
         IN IosFill([S EXCEPT !.task[i] = "running", !.attempts[i] = @ + 1])

\* the chunks one run of the loop hands to uploadChunk(at:)
IosDispatched(S) ==
    IF S.state # "uploading" THEN {}
    ELSE {i \in 0..(S.n - 1) : S.task[i] = "none" /\ IosFill(S).task[i] = "running"}

\* uploadChunk(at: bad) throws before the task exists (readChunkData,
\* data.write): fail(with:); activeTasks has not grown, so the loop asks
\* getNextChunkIndex again, gets bad again, and the block does not return
\* while the file stays unreadable
IosReadFails(S) == [IosFail(S) EXCEPT !.stuck = TRUE]

\* the loop of uploadNextChunks when the read of chunk bad throws
RECURSIVE IosFillUntil(_, _)
IosFillUntil(S, bad) ==
    LET i == CHOOSE x \in IosPending(S) : \A y \in IosPending(S) : x <= y
    IN IF i = bad THEN IosReadFails(S)
       ELSE IosFillUntil([S EXCEPT !.task[i] = "running", !.attempts[i] = @ + 1], bad)

\* the block uploadNextChunks() puts on the session queue (bad: the chunk
\* whose read throws, NoChunk: none)
IosUploadNextChunks(S, bad) ==
    IF S.state # "uploading" THEN S
    ELSE IF bad = NoChunk THEN IosFill(S)
    ELSE IosFillUntil(S, bad)

\* the block pause() puts on the session queue (by: who called pause())
IosPauseBlock(S, by) ==
    IF S.state # "uploading" THEN S
    ELSE [S EXCEPT !.state = "paused", !.isPaused = TRUE, !.pausedBy = by,
                   !.task = [i \in DOMAIN @ |-> IF @[i] = "running" THEN "suspended" ELSE @[i]]]

\* the block resume() puts on the session queue; uploadNextChunks() at its
\* end is one more block appended to the queue
IosResumeBlock(S) ==
    IF S.state # "paused" THEN S
    ELSE [S EXCEPT !.state = "uploading", !.isPaused = FALSE,
                   !.task = [i \in DOMAIN @ |-> IF @[i] = "suspended" THEN "running" ELSE @[i]],
                   !.queue = Append(@, [op |-> "next"])]

\* the block cancel() puts on the session queue
IosCancelBlock(S) ==
    IF S.hasResumedContinuation THEN S
    ELSE [S EXCEPT !.hasResumedContinuation = TRUE, !.state = "cancelled",
                   !.task = [i \in DOMAIN @ |-> "none"],
                   !.result = [kind |-> "returned", success |-> FALSE, etags |-> <<>>]]

\* urlSession(_:task:didCompleteWithError:), the delegate calls: the events
\* the block emits (b is the block [op |-> "done", index, ok, etag])
IosDidCompleteEvents(S, s, b) ==
    IF S.task[b.index] = "none" \/ S.state \notin {"uploading", "paused"} THEN <<>>
    ELSE IF ~b.ok THEN <<Ev("chunk-failed", S.uploadId, s, b.index)>>
    ELSE <<Ev("upload-progress", S.uploadId, s, S.bytesUploaded + IosPartSize(S, b.index)),
           Ev("chunk-completed", S.uploadId, s, b.index)>>

\* urlSession(_:task:didCompleteWithError:), the session half
IosDidComplete(S, b) ==
    IF S.task[b.index] = "none" THEN S
    ELSE LET S1 == [S EXCEPT !.task[b.index] = "none"] IN
         IF S1.state \notin {"uploading", "paused"} THEN S1
         ELSE IF ~b.ok THEN
              (IF IosActive(S1) = {} /\ Cardinality(S1.completedChunks) < S1.n
               THEN IosFail(S1) ELSE S1)
         ELSE LET S2 == [S1 EXCEPT !.etags[b.index] = b.etag,
                                   !.completedChunks = @ \cup {b.index},
                                   !.bytesUploaded = @ + IosPartSize(S1, b.index)]
              IN IF Cardinality(S2.completedChunks) = S2.n
                 THEN IosComplete(S2)
                 ELSE [S2 EXCEPT !.queue = Append(@, [op |-> "next"])]

\* one block of the session's serial queue
IosRunBlock(S, b, bad) ==
    CASE b.op = "pause"  -> IosPauseBlock(S, b.by)
      [] b.op = "resume" -> IosResumeBlock(S)
      [] b.op = "cancel" -> IosCancelBlock(S)
      [] b.op = "next"   -> IosUploadNextChunks(S, bad)
      [] b.op = "done"   -> IosDidComplete(S, b)

\* the session is not terminal and some chunk is not completed
IosPartsLeft(S) ==
    S.state \in {"uploading", "paused"} /\ Cardinality(S.completedChunks) < S.n

\* (the guard below, were the uploadId not compared)
IosFoundAnyId(id) == currentUpload # 0
\* the guard of pauseUpload / resumeUpload / cancelUpload / getUploadState
IosFound(id) == currentUpload # 0 /\ sess[currentUpload].uploadId = id

\* what emitEvent adds to the history of the session
IosSaw(S, type) == [S EXCEPT !.seen = @ \cup {type}]

iosUnchanged == UNCHANGED <<platform, env, activeUploads, uploadStates, jsCall>>


\* startUpload up to `try await session.start()`: "only one upload at a time",
\* UploadSession.init, registration, upload-started, session.start()
IosStartUpload(id, fileSize, n, parallel) ==
    /\ platform = "ios"
    /\ IF ~IosArgsValid(id, fileSize, n)
       THEN /\ opsLeft > 0
            /\ opsLeft' = opsLeft - 1
            /\ lastCall' = Call("startUpload", id, "ValidationError")
            /\ emitted' = <<>>
            /\ UNCHANGED <<sess, currentUpload, cancelled, sessLeft>>
       ELSE IF currentUpload # 0
       THEN /\ opsLeft > 0
            /\ opsLeft' = opsLeft - 1
            /\ lastCall' = Call("startUpload", id, "AlreadyInProgress")
            /\ emitted' = <<>>
            /\ UNCHANGED <<sess, currentUpload, cancelled, sessLeft>>
       ELSE IF ~IosFileFound(fileSize) \/ ~IosFileLargeEnough(fileSize, n)
       THEN /\ opsLeft > 0
            /\ opsLeft' = opsLeft - 1
            /\ lastCall' = Call("startUpload", id, "ValidationError")
            /\ emitted' = <<>>
            /\ UNCHANGED <<sess, currentUpload, cancelled, sessLeft>>
       ELSE /\ sessLeft > 0
            /\ sessLeft' = sessLeft - 1
            /\ LET s == Len(sess) + 1
                   S == IosSaw(IosNewSession(id, fileSize, n, parallel), "upload-started")
               IN /\ sess' = Append(sess, [S EXCEPT !.state = "uploading",
                                                    !.queue = <<[op |-> "next"]>>])
                  /\ currentUpload' = s
                  /\ emitted' = <<Ev("upload-started", id, s, 0)>>
            /\ cancelled' = cancelled \ {id}
            /\ lastCall' = Call("startUpload", id, "pending")
            /\ UNCHANGED opsLeft
    /\ UNCHANGED <<isNetworkAvailable, failsLeft>>
    /\ iosUnchanged

\* startUpload runs in Promise.async, off the caller's thread, and takes no
\* lock: this is one call from the "only one upload at a time" check to
\* UploadSession.init, with `self.currentUpload = session` still to come, so
\* that other calls run in between (jsCall: the session of that call)
IosStartUploadCheck(id, fileSize, n, parallel) ==
    /\ platform = "ios"
    /\ jsCall = 0
    /\ IosArgsValid(id, fileSize, n)
    /\ currentUpload = 0
    /\ IosFileFound(fileSize)
    /\ IosFileLargeEnough(fileSize, n)
    /\ sessLeft > 0
    /\ sessLeft' = sessLeft - 1
    /\ sess' = Append(sess, IosNewSession(id, fileSize, n, parallel))
    /\ jsCall' = Len(sess) + 1
    /\ cancelled' = cancelled \ {id}
    /\ lastCall' = Call("startUpload", id, "pending")
    /\ emitted' = <<>>
    /\ UNCHANGED <<platform, env, currentUpload, activeUploads, uploadStates,
                   isNetworkAvailable, opsLeft, failsLeft>>

\* the next statement of that call: self.currentUpload = session
\* (registered: it has run)
IosStartUploadRegister ==
    /\ platform = "ios"
    /\ jsCall # 0
    /\ ~sess[jsCall].registered
    /\ sess' = [sess EXCEPT ![jsCall].registered = TRUE]
    /\ currentUpload' = jsCall
    /\ emitted' = <<>>
    /\ UNCHANGED <<platform, env, activeUploads, uploadStates, isNetworkAvailable,
                   jsCall, lastCall, cancelled, sessLeft, opsLeft, failsLeft>>

\* the rest of that call: upload-started, session.start()
IosStartUploadStarted ==
    /\ platform = "ios"
    /\ jsCall # 0
    /\ sess[jsCall].registered
    /\ LET s == jsCall IN
          /\ sess' = [sess EXCEPT ![s] = [IosSaw(@, "upload-started") EXCEPT
                                            !.state = "uploading",
                                            !.queue = Append(@, [op |-> "next"])]]
          /\ emitted' = <<Ev("upload-started", sess[s].uploadId, s, 0)>>
    /\ jsCall' = 0
    /\ UNCHANGED <<platform, env, currentUpload, activeUploads, uploadStates,
                   isNetworkAvailable, lastCall, cancelled, sessLeft, opsLeft, failsLeft>>

\* startUpload, after `try await session.start()` has returned or thrown
IosStartUploadSettle(s) ==
    /\ platform = "ios"
    /\ sess[s].pc = "awaiting"
    /\ sess[s].result.kind # "none"
    /\ currentUpload' = 0
    /\ LET r == sess[s].result
           type == IF r.kind = "returned" /\ r.success THEN "upload-completed" ELSE "upload-failed"
       IN /\ emitted' = <<Ev(type, sess[s].uploadId, s, 0)>>
          /\ sess' = [sess EXCEPT ![s] =
                [IosSaw(@, type) EXCEPT
                   !.pc = "settled",
                   !.promise = IF r.kind = "thrown"
                               THEN [status |-> "rejected", success |-> FALSE,
                                     etags |-> <<>>, error |-> "error"]
                               ELSE [status |-> "resolved", success |-> r.success,
                                     etags |-> r.etags, error |-> "none"]]]
    /\ UNCHANGED <<isNetworkAvailable, lastCall, cancelled, sessLeft, opsLeft, failsLeft>>
    /\ iosUnchanged

IosPauseUpload(id) ==
    /\ platform = "ios"
    /\ opsLeft > 0
    /\ opsLeft' = opsLeft - 1
    /\ IF IosFound(id)
       THEN /\ sess' = [sess EXCEPT ![currentUpload] =
                          [IosSaw(@, "upload-paused") EXCEPT
                              !.queue = Append(@, [op |-> "pause", by |-> "user"]),
                              !.userPaused = TRUE,
                              !.pauseLive = @ \/ IosPartsLeft(sess[currentUpload])]]
            /\ emitted' = <<Ev("upload-paused", id, currentUpload, 0)>>
            /\ lastCall' = Call("pauseUpload", id, "ok")
       ELSE /\ lastCall' = Call("pauseUpload", id, "NotFound")
            /\ emitted' = <<>>
            /\ UNCHANGED sess
    /\ UNCHANGED <<currentUpload, isNetworkAvailable, cancelled, sessLeft, failsLeft>>
    /\ iosUnchanged

IosResumeUpload(id) ==
    /\ platform = "ios"
    /\ opsLeft > 0
    /\ opsLeft' = opsLeft - 1
    /\ IF IosFound(id)
       THEN /\ sess' = [sess EXCEPT ![currentUpload] =
                          [IosSaw(@, "upload-resumed") EXCEPT
                              !.queue = Append(@, [op |-> "resume", by |-> "user"]),
                              !.userPaused = FALSE]]
            /\ emitted' = <<Ev("upload-resumed", id, currentUpload, 0)>>
            /\ lastCall' = Call("resumeUpload", id, "ok")
       ELSE /\ lastCall' = Call("resumeUpload", id, "NotFound")
            /\ emitted' = <<>>
            /\ UNCHANGED sess
    /\ UNCHANGED <<currentUpload, isNetworkAvailable, cancelled, sessLeft, failsLeft>>
    /\ iosUnchanged

IosCancelUpload(id) ==
    /\ platform = "ios"
    /\ opsLeft > 0
    /\ opsLeft' = opsLeft - 1
    /\ lastCall' = Call("cancelUpload", id, "ok")
    /\ cancelled' = cancelled \cup {id}
    /\ IF IosFound(id)
       THEN /\ sess' = [sess EXCEPT ![currentUpload] =
                          [IosSaw(@, "upload-cancelled") EXCEPT
                              !.queue = Append(@, [op |-> "cancel"]),
                              !.cancelAsked = TRUE,
                              !.cancelLive = ~sess[currentUpload].hasResumedContinuation,
                              !.cancelInFlight = IosInFlight(sess[currentUpload]) # {}]]
            /\ currentUpload' = 0
            /\ emitted' = <<Ev("upload-cancelled", id, currentUpload, 0)>>
       ELSE /\ emitted' = <<>>
            /\ UNCHANGED <<sess, currentUpload>>
    /\ UNCHANGED <<isNetworkAvailable, sessLeft, failsLeft>>
    /\ iosUnchanged

\* pathUpdateHandler, wasAvailable && !isAvailable
IosNetworkLost ==
    /\ platform = "ios"
    /\ opsLeft > 0
    /\ isNetworkAvailable
    /\ opsLeft' = opsLeft - 1
    /\ isNetworkAvailable' = FALSE
    /\ IF currentUpload # 0
       THEN /\ sess' = [sess EXCEPT ![currentUpload] =
                          [IosSaw(@, "network-lost") EXCEPT
                              !.queue = Append(@, [op |-> "pause", by |-> "network"])]]
            /\ emitted' = <<Ev("network-lost", sess[currentUpload].uploadId, currentUpload, 0)>>
       ELSE /\ emitted' = <<>>
            /\ UNCHANGED sess
    /\ UNCHANGED <<currentUpload, lastCall, cancelled, sessLeft, failsLeft>>
    /\ iosUnchanged

\* pathUpdateHandler, !wasAvailable && isAvailable
IosNetworkRestored ==
    /\ platform = "ios"
    /\ opsLeft > 0
    /\ ~isNetworkAvailable
    /\ opsLeft' = opsLeft - 1
    /\ isNetworkAvailable' = TRUE
    /\ IF currentUpload # 0
       THEN /\ sess' = [sess EXCEPT ![currentUpload] =
                          [IosSaw(@, "network-restored") EXCEPT
                              !.queue = Append(@, [op |-> "resume", by |-> "network"])]]
            /\ emitted' = <<Ev("network-restored", sess[currentUpload].uploadId, currentUpload, 0)>>
       ELSE /\ emitted' = <<>>
            /\ UNCHANGED sess
    /\ UNCHANGED <<currentUpload, lastCall, cancelled, sessLeft, failsLeft>>
    /\ iosUnchanged

\* the URLSession upload task of chunk index finishes with a 2xx response
\* (ok) or with a transport error / another status: the delegate callback puts
\* its block on the session queue
IosTaskFinish(s, index, ok) ==
    /\ platform = "ios"
    /\ sess[s].task[index] = "running"
    /\ IosResponses(sess[s]) < env.responses
    /\ ok \/ failsLeft > 0
    /\ failsLeft' = IF ok THEN failsLeft ELSE failsLeft - 1
    /\ sess' = [sess EXCEPT
                  ![s].task[index] = "finished",
                  ![s].nfail[index] = IF ok THEN @ ELSE @ + 1,
                  ![s].queue = Append(@, [op |-> "done", index |-> index, ok |-> ok,
                                          etag |-> ServerETag(s, index + 1)])]
    /\ emitted' = <<>>
    /\ UNCHANGED <<currentUpload, isNetworkAvailable, lastCall, cancelled, sessLeft, opsLeft>>
    /\ iosUnchanged

\* the session's serial DispatchQueue runs its next block (bad: the chunk
\* whose local read throws in this block, NoChunk: none)
IosQueueStep(s, bad) ==
    /\ platform = "ios"
    /\ sess[s].queue # <<>>
    /\ ~sess[s].stuck
    /\ LET b == Head(sess[s].queue)
           S == [sess[s] EXCEPT !.queue = Tail(@)]
           evs == IF b.op = "done" THEN IosDidCompleteEvents(S, s, b)
                  ELSE IF bad # NoChunk THEN <<Ev("chunk-failed", S.uploadId, s, bad)>>
                  ELSE <<>>
           T == IosRunBlock(S, b, bad)
       IN /\ bad # NoChunk => (b.op = "next" /\ bad \in IosDispatched(S) /\ failsLeft > 0)
          /\ failsLeft' = IF bad = NoChunk THEN failsLeft ELSE failsLeft - 1
          /\ sess' = [sess EXCEPT ![s] =
                        [T EXCEPT !.seen = @ \cup {evs[k].type : k \in 1..Len(evs)},
                                  !.lastProgress = IF evs # <<>> /\ evs[1].type = "upload-progress"
                                                   THEN evs[1].arg ELSE @]]
          /\ emitted' = evs
    /\ UNCHANGED <<currentUpload, isNetworkAvailable, lastCall, cancelled, sessLeft, opsLeft>>
    /\ iosUnchanged

\* getUploadState as a function of the state
IosGetUploadState(id) ==
    IF ~IosFound(id) THEN [found |-> FALSE]
    ELSE LET S == sess[currentUpload] IN
         [found |-> TRUE, state |-> S.state, bytesUploaded |-> S.bytesUploaded,
          totalBytes |-> S.totalBytes, isPaused |-> S.isPaused]

(* ======================================================================= *)
(*                                Android                                  *)
(* ======================================================================= *)

\* (the offset below, were the division rounded up instead of down)
AndOffsetRoundedUp(fileSize, n, index) == CeilDiv(fileSize * index, n)
\* performUpload: offset of part index (0-based) by proportional division
AndOffset(fileSize, n, index) == (fileSize * index) \div n

\* performUpload: chunkSize = nextOffset - offset
AndPartSize(fileSize, n, index) ==
    (IF index = n - 1 THEN fileSize ELSE (fileSize * (index + 1)) \div n)
        - AndOffset(fileSize, n, index)

\* header("ETag")?.trim('"')
TrimQuotes(etag) == [etag EXCEPT !.quoted = FALSE]

\* maxParallel?.toInt()?.coerceIn(1, 10) ?: 3
AndParallel(maxParallel) ==
    IF maxParallel = Omitted THEN DefaultParallel ELSE Max(1, Min(10, maxParallel))

\* the objects one accepted startUpload creates: the UploadStateData
\* (bytesUploaded .. failedChunks), the UploadJob (isPaused) and its coroutine
\* Job (jobCancelled, jpc, stateRef, jobRef, ppc, retries, pstate), the promise;
\* prog is the bytesUploaded each part thread has put into its upload-progress
\* event, lastProgress the value of the last upload-progress event emitted;
\* attempts .. seen are history of the session: PUTs sent and failed per part,
\* whether pauseUpload was the last pause/resume call, what cancelUpload found
\* (a session not yet settled, a PUT in flight), the event types emitted
AndNewSession(id, fileSize, n, parallel) ==
    [uploadId |-> id, n |-> n, maxParallel |-> parallel, totalBytes |-> fileSize,
     bytesUploaded |-> 0, completedChunks |-> 0,
     partETags |-> <<>>, failedChunks |-> {},
     isPaused |-> FALSE, jobCancelled |-> FALSE,
     jpc |-> "launched", stateRef |-> 0, jobRef |-> 0,
     ppc |-> [pn \in 1..n |-> "waiting"],
     retries |-> [pn \in 1..n |-> 0],
     pstate |-> [pn \in 1..n |-> 0],
     prog |-> [pn \in 1..n |-> 0],
     promise |-> NoPromise,
     attempts |-> [pn \in 1..n |-> 0],
     nfail |-> [pn \in 1..n |-> 0],
     pausedBy |-> "none", userPaused |-> FALSE,
     pauseLive |-> FALSE, lastProgress |-> 0, registered |-> FALSE,
     cancelAsked |-> FALSE, cancelLive |-> FALSE, cancelInFlight |-> FALSE,
     seen |-> {}]

\* partETags is a LinkedHashMap: entries <<partNumber, eTag>> in insertion order
MapKeys(m) == {m[k][1] : k \in 1..Len(m)}
MapPut(m, key, val) ==
    IF key \in MapKeys(m)
    THEN [k \in 1..Len(m) |-> IF m[k][1] = key THEN <<key, val>> ELSE m[k]]
    ELSE Append(m, <<key, val>>)
MapGet(m, key) == LET k == CHOOSE j \in 1..Len(m) : m[j][1] = key IN m[k][2]

\* state.partETags.toSortedMap().values
RECURSIVE SortedValues(_, _)
SortedValues(m, keys) ==
    IF keys = {} THEN <<>>
    ELSE LET lo == CHOOSE x \in keys : \A y \in keys : x <= y
         IN <<MapGet(m, lo)>> \o SortedValues(m, keys \ {lo})
AndSortedETags(m) == SortedValues(m, MapKeys(m))

\* startUpload: file.exists(), file.canRead(), file.length() != 0
AndFileUsable(file) == file > 0

\* cleanup(uploadId)
AndCleanup(id) ==
    /\ activeUploads' = [activeUploads EXCEPT ![id] = 0]
    /\ uploadStates' = [uploadStates EXCEPT ![id] = 0]

\* the job of the session is active and some part has not returned true
AndPartsLeft(S) ==
    /\ S.jpc \in {"launched", "running"} /\ ~S.jobCancelled
    /\ \E pn \in 1..S.n : S.ppc[pn] # "true"

\* parts of session s that hold a semaphore permit
AndHolders(S) ==
    {pn \in 1..S.n : S.ppc[pn] \in {"loop", "checked", "inflight", "recorded", "emitting"}}

\* parts of session s whose PUT has been sent and has not returned
AndInFlight(S) == {pn \in 1..S.n : S.ppc[pn] = "inflight"}

andUnchanged == UNCHANGED <<platform, env, currentUpload>>

\* startUpload on the calling thread, up to uploadScope.launch (or to the
\* catch block: cleanup(uploadId), promise.reject)
AndStartUpload(id, fileSize, n, maxParallel) ==
    /\ platform = "android"
    /\ jsCall = 0
    /\ IF activeUploads[id] # 0
       THEN /\ opsLeft > 0
            /\ opsLeft' = opsLeft - 1
            /\ lastCall' = Call("startUpload", id, "AlreadyInProgress")
            /\ AndCleanup(id)
            /\ UNCHANGED <<sess, jsCall, sessLeft, cancelled>>
       ELSE IF ~AndFileUsable(fileSize)
       THEN /\ opsLeft > 0
            /\ opsLeft' = opsLeft - 1
            /\ lastCall' = Call("startUpload", id, "ValidationError")
            /\ AndCleanup(id)
            /\ UNCHANGED <<sess, jsCall, sessLeft, cancelled>>
       ELSE /\ sessLeft > 0
            /\ sessLeft' = sessLeft - 1
            /\ sess' = Append(sess, AndNewSession(id, fileSize, n, AndParallel(maxParallel)))
            /\ uploadStates' = [uploadStates EXCEPT ![id] = Len(sess) + 1]
            /\ jsCall' = Len(sess) + 1
            /\ cancelled' = cancelled \ {id}
            /\ lastCall' = Call("startUpload", id, "pending")
            /\ UNCHANGED <<activeUploads, opsLeft>>
    /\ emitted' = <<>>
    /\ UNCHANGED <<isNetworkAvailable, failsLeft>>
    /\ andUnchanged

\* startUpload on the calling thread, after uploadScope.launch:
\* activeUploads[uploadId] = UploadJob(..) (registered: it has run)
AndStartUploadRegister ==
    /\ platform = "android"
    /\ jsCall # 0
    /\ ~sess[jsCall].registered
    /\ activeUploads' = [activeUploads EXCEPT ![sess[jsCall].uploadId] = jsCall]
    /\ sess' = [sess EXCEPT ![jsCall].registered = TRUE]
    /\ emitted' = <<>>
    /\ UNCHANGED <<uploadStates, isNetworkAvailable, jsCall, lastCall, cancelled,
                   sessLeft, opsLeft, failsLeft>>
    /\ andUnchanged

\* startUpload on the calling thread, the statement after it: upload-started
AndStartUploadStarted ==
    /\ platform = "android"
    /\ jsCall # 0
    /\ sess[jsCall].registered
    /\ LET s == jsCall IN
          /\ emitted' = <<Ev("upload-started", sess[s].uploadId, s, 0)>>
          /\ sess' = [sess EXCEPT ![s].seen = @ \cup {"upload-started"}]
    /\ jsCall' = 0
    /\ UNCHANGED <<activeUploads, uploadStates, isNetworkAvailable, lastCall, cancelled,
                   sessLeft, opsLeft, failsLeft>>
    /\ andUnchanged

\* the launched coroutine enters performUpload: the two registry lookups; a
\* missing entry throws outside performUpload's try, into the catch of launch
AndJobBegin(s) ==
    /\ platform = "android"
    /\ sess[s].jpc = "launched"
    /\ ~sess[s].jobCancelled
    /\ LET id == sess[s].uploadId IN
       IF uploadStates[id] = 0 \/ activeUploads[id] = 0
       THEN sess' = [sess EXCEPT ![s].jpc = "settled",
                                 ![s].promise = [status |-> "rejected", success |-> FALSE,
                                                 etags |-> <<>>, error |-> "error"]]
       ELSE sess' = [sess EXCEPT ![s].jpc = "running",
                                 ![s].stateRef = uploadStates[id],
                                 ![s].jobRef = activeUploads[id]]
    /\ emitted' = <<>>
    /\ UNCHANGED <<activeUploads, uploadStates, isNetworkAvailable, jsCall, lastCall,
                   cancelled, sessLeft, opsLeft, failsLeft>>
    /\ andUnchanged

\* semaphore.withPermit { uploadPart(..) } up to the retry loop: the state
\* lookup and the "already uploaded" check
AndPartBegin(s, pn) ==
    /\ platform = "android"
    /\ sess[s].jpc = "running"
    /\ ~sess[s].jobCancelled
    /\ sess[s].ppc[pn] = "waiting"
    /\ Cardinality(AndHolders(sess[s])) < sess[s].maxParallel
    /\ LET r == uploadStates[sess[s].uploadId] IN
       sess' = [sess EXCEPT ![s].ppc[pn] =
                     IF r = 0 THEN "false"
                     ELSE IF pn \in MapKeys(sess[r].partETags) THEN "true"
                     ELSE "loop",
                  ![s].pstate[pn] = r]
    /\ emitted' = <<>>
    /\ UNCHANGED <<activeUploads, uploadStates, isNetworkAvailable, jsCall, lastCall,
                   cancelled, sessLeft, opsLeft, failsLeft>>
    /\ andUnchanged

\* uploadPart, head of the retry loop: the checks of isPaused and isActive
\* have passed (no lock is held: pauseUpload and cancelUpload may run before
\* the PUT is sent)
AndPartAttempt(s, pn) ==
    /\ platform = "android"
    /\ sess[s].ppc[pn] = "loop"
    /\ sess[s].retries[pn] < MAX_RETRIES
    /\ ~sess[sess[s].jobRef].isPaused
    /\ ~sess[s].jobCancelled
    /\ sess' = [sess EXCEPT ![s].ppc[pn] = "checked"]
    /\ emitted' = <<>>
    /\ UNCHANGED <<activeUploads, uploadStates, isNetworkAvailable, jsCall, lastCall,
                   cancelled, sessLeft, opsLeft, failsLeft>>
    /\ andUnchanged

\* uploadPart, the try block up to httpClient.newCall(request).execute():
\* readChunk and the PUT is sent
AndPartSend(s, pn) ==
    /\ platform = "android"
    /\ sess[s].ppc[pn] = "checked"
    /\ sess' = [sess EXCEPT ![s].ppc[pn] = "inflight", ![s].attempts[pn] = @ + 1]
    /\ emitted' = <<>>
    /\ UNCHANGED <<activeUploads, uploadStates, isNetworkAvailable, jsCall, lastCall,
                   cancelled, sessLeft, opsLeft, failsLeft>>
    /\ andUnchanged

\* uploadPart, the attempt succeeded: synchronized(state) { .. } on the state
\* object r the part looked up
AndRecordPart(T, pn, etag, size) ==
    [T EXCEPT !.partETags = MapPut(@, pn, TrimQuotes(etag)),
              !.completedChunks = @ + 1,
              !.bytesUploaded = @ + size,
              !.failedChunks = @ \ {pn}]

\* uploadPart: execute() returns (ok: a 2xx response) or the attempt throws
\* (readChunk, the transport, another status)
AndPartResponse(s, pn, ok) ==
    /\ platform = "android"
    /\ sess[s].ppc[pn] = "inflight"
    /\ ok \/ failsLeft > 0
    /\ failsLeft' = IF ok THEN failsLeft ELSE failsLeft - 1
    /\ LET S == sess[s]
           r == S.pstate[pn]
           size == AndPartSize(S.totalBytes, S.n, pn - 1)
       IN IF ok
          THEN LET a == [sess EXCEPT ![r] = AndRecordPart(@, pn, ServerETag(s, pn), size)]
               IN /\ sess' = [a EXCEPT ![s].ppc[pn] = "recorded"]
                  /\ emitted' = <<>>
          ELSE IF S.retries[pn] + 1 < MAX_RETRIES
          THEN /\ sess' = [sess EXCEPT ![s].retries[pn] = @ + 1, ![s].nfail[pn] = @ + 1,
                                       ![s].ppc[pn] = "loop"]
               /\ emitted' = <<>>
          ELSE LET a == [sess EXCEPT ![r].failedChunks = @ \cup {pn}]
               IN /\ sess' = [a EXCEPT ![s].retries[pn] = @ + 1, ![s].nfail[pn] = @ + 1,
                                       ![s].ppc[pn] = "false",
                                       ![s].seen = @ \cup {"chunk-failed"}]
                  /\ emitted' = <<Ev("chunk-failed", S.uploadId, s, pn - 1)>>
    /\ UNCHANGED <<activeUploads, uploadStates, isNetworkAvailable, jsCall, lastCall,
                   cancelled, sessLeft, opsLeft>>
    /\ andUnchanged

\* uploadPart after the synchronized block, on the part's own thread with no
\* lock held: chunk-completed is emitted and the upload-progress event is
\* built from state.bytesUploaded as it is now (prog: that event's value)
AndPartEmitCompleted(s, pn) ==
    /\ platform = "android"
    /\ sess[s].ppc[pn] = "recorded"
    /\ sess' = [sess EXCEPT ![s].ppc[pn] = "emitting",
                            ![s].prog[pn] = sess[sess[s].pstate[pn]].bytesUploaded,
                            ![s].seen = @ \cup {"chunk-completed"}]
    /\ emitted' = <<Ev("chunk-completed", sess[s].uploadId, s, pn - 1)>>
    /\ UNCHANGED <<activeUploads, uploadStates, isNetworkAvailable, jsCall, lastCall,
                   cancelled, sessLeft, opsLeft, failsLeft>>
    /\ andUnchanged

\* uploadPart: emitEvent hands the upload-progress event to the listeners;
\* return true
AndPartEmitProgress(s, pn) ==
    /\ platform = "android"
    /\ sess[s].ppc[pn] = "emitting"
    /\ sess' = [sess EXCEPT ![s].ppc[pn] = "true",
                            ![s].lastProgress = sess[s].prog[pn],
                            ![s].seen = @ \cup {"upload-progress"}]
    /\ emitted' = <<Ev("upload-progress", sess[s].uploadId, s, sess[s].prog[pn])>>
    /\ UNCHANGED <<activeUploads, uploadStates, isNetworkAvailable, jsCall, lastCall,
                   cancelled, sessLeft, opsLeft, failsLeft>>
    /\ andUnchanged

\* performUpload after awaitAll (or its CancellationException once the job is
\* cancelled and no PUT is blocking a thread), up to promise.resolve / reject
AndJobSettle(s) ==
    /\ platform = "android"
    /\ sess[s].jpc = "running"
    /\ \A pn \in 1..sess[s].n :
          sess[s].ppc[pn] \notin {"checked", "inflight", "recorded", "emitting"}
    /\ sess[s].jobCancelled \/ \A pn \in 1..sess[s].n : sess[s].ppc[pn] \in {"true", "false"}
    /\ LET S == sess[s]
           st == sess[S.stateRef]
       IN IF S.jobCancelled
          THEN /\ sess' = [sess EXCEPT ![s].jpc = "settled",
                             ![s].promise = [status |-> "rejected", success |-> FALSE,
                                             etags |-> <<>>, error |-> "CancellationException"]]
               /\ emitted' = <<>>
          ELSE IF st.completedChunks # S.n
          THEN /\ sess' = [sess EXCEPT ![s].jpc = "settled",
                             ![s].seen = @ \cup {"upload-failed"},
                             ![s].promise = [status |-> "rejected", success |-> FALSE,
                                             etags |-> <<>>, error |-> "error"]]
               /\ emitted' = <<Ev("upload-failed", S.uploadId, s, 0)>>
          ELSE /\ sess' = [sess EXCEPT ![s].jpc = "settled",
                             ![s].seen = @ \cup {"upload-completed"},
                             ![s].promise = [status |-> "resolved", success |-> TRUE,
                                             etags |-> AndSortedETags(st.partETags),
                                             error |-> "none"]]
               /\ emitted' = <<Ev("upload-completed", S.uploadId, s, 0)>>
    /\ UNCHANGED <<activeUploads, uploadStates, isNetworkAvailable, jsCall, lastCall,
                   cancelled, sessLeft, opsLeft, failsLeft>>
    /\ andUnchanged

\* the finally block of the launched coroutine
AndJobCleanup(s) ==
    /\ platform = "android"
    /\ sess[s].jpc = "settled"
    /\ sess' = [sess EXCEPT ![s].jpc = "done"]
    /\ AndCleanup(sess[s].uploadId)
    /\ emitted' = <<>>
    /\ UNCHANGED <<isNetworkAvailable, jsCall, lastCall, cancelled, sessLeft, opsLeft, failsLeft>>
    /\ andUnchanged

AndPauseUpload(id) ==
    /\ platform = "android"
    /\ jsCall = 0
    /\ opsLeft > 0
    /\ opsLeft' = opsLeft - 1
    /\ IF activeUploads[id] # 0
       THEN /\ sess' = [sess EXCEPT ![activeUploads[id]].isPaused = TRUE,
                                    ![activeUploads[id]].pausedBy = "user",
                                    ![activeUploads[id]].userPaused = TRUE,
                                    ![activeUploads[id]].pauseLive =
                                          @ \/ AndPartsLeft(sess[activeUploads[id]]),
                                    ![activeUploads[id]].seen = @ \cup {"upload-paused"}]
            /\ emitted' = <<Ev("upload-paused", id, activeUploads[id], 0)>>
            /\ lastCall' = Call("pauseUpload", id, "ok")
       ELSE /\ lastCall' = Call("pauseUpload", id, "NotFound")
            /\ emitted' = <<>>
            /\ UNCHANGED sess
    /\ UNCHANGED <<activeUploads, uploadStates, isNetworkAvailable, jsCall, cancelled,
                   sessLeft, failsLeft>>
    /\ andUnchanged

AndResumeUpload(id) ==
    /\ platform = "android"
    /\ jsCall = 0
    /\ opsLeft > 0
    /\ opsLeft' = opsLeft - 1
    /\ IF activeUploads[id] # 0
       THEN /\ sess' = [sess EXCEPT ![activeUploads[id]].isPaused = FALSE,
                                    ![activeUploads[id]].userPaused = FALSE,
                                    ![activeUploads[id]].seen = @ \cup {"upload-resumed"}]
            /\ emitted' = <<Ev("upload-resumed", id, activeUploads[id], 0)>>
            /\ lastCall' = Call("resumeUpload", id, "ok")
       ELSE /\ lastCall' = Call("resumeUpload", id, "NotFound")
            /\ emitted' = <<>>
            /\ UNCHANGED sess
    /\ UNCHANGED <<activeUploads, uploadStates, isNetworkAvailable, jsCall, cancelled,
                   sessLeft, failsLeft>>
    /\ andUnchanged

AndCancelUpload(id) ==
    /\ platform = "android"
    /\ jsCall = 0
    /\ opsLeft > 0
    /\ opsLeft' = opsLeft - 1
    /\ lastCall' = Call("cancelUpload", id, "ok")
    /\ cancelled' = cancelled \cup {id}
    /\ sess' = IF activeUploads[id] # 0
               THEN [sess EXCEPT ![activeUploads[id]].jobCancelled = TRUE,
                                 ![activeUploads[id]].cancelAsked = TRUE,
                                 ![activeUploads[id]].cancelLive =
                                       sess[activeUploads[id]].jpc \in {"launched", "running"},
                                 ![activeUploads[id]].cancelInFlight =
                                       AndInFlight(sess[activeUploads[id]]) # {},
                                 ![activeUploads[id]].seen = @ \cup {"upload-cancelled"}]
               ELSE sess
    /\ emitted' = <<Ev("upload-cancelled", id, activeUploads[id], 0)>>
    /\ AndCleanup(id)
    /\ UNCHANGED <<isNetworkAvailable, jsCall, sessLeft, failsLeft>>
    /\ andUnchanged

\* the events one connectivity callback emits: one per key of activeUploads
RECURSIVE AndNetworkEvents(_, _)
AndNetworkEvents(type, ids) ==
    IF ids = {} THEN <<>>
    ELSE LET id == CHOOSE x \in ids : \A y \in ids : x <= y
         IN <<Ev(type, id, activeUploads[id], 0)>> \o AndNetworkEvents(type, ids \ {id})

AndSawAll(type) ==
    [s \in 1..Len(sess) |->
        IF \E id \in Ids : activeUploads[id] = s
        THEN [sess[s] EXCEPT !.seen = @ \cup {type}] ELSE sess[s]]

\* NetworkCallback.onLost
AndNetworkLost ==
    /\ platform = "android"
    /\ opsLeft > 0
    /\ isNetworkAvailable
    /\ opsLeft' = opsLeft - 1
    /\ isNetworkAvailable' = FALSE
    /\ emitted' = AndNetworkEvents("network-lost", {id \in Ids : activeUploads[id] # 0})
    /\ sess' = AndSawAll("network-lost")
    /\ UNCHANGED <<activeUploads, uploadStates, jsCall, lastCall, cancelled, sessLeft, failsLeft>>
    /\ andUnchanged

\* NetworkCallback.onAvailable
AndNetworkRestored ==
    /\ platform = "android"
    /\ opsLeft > 0
    /\ ~isNetworkAvailable
    /\ opsLeft' = opsLeft - 1
    /\ isNetworkAvailable' = TRUE
    /\ emitted' = AndNetworkEvents("network-restored", {id \in Ids : activeUploads[id] # 0})
    /\ sess' = AndSawAll("network-restored")
    /\ UNCHANGED <<activeUploads, uploadStates, jsCall, lastCall, cancelled, sessLeft, failsLeft>>
    /\ andUnchanged

\* getUploadState as a function of the state
AndGetUploadState(id) ==
    IF uploadStates[id] = 0 THEN [found |-> FALSE]
    ELSE LET st == sess[uploadStates[id]]
             paused == IF activeUploads[id] # 0 THEN sess[activeUploads[id]].isPaused ELSE FALSE
         IN [found |-> TRUE,
             state |-> IF paused THEN "paused"
                       ELSE IF st.failedChunks # {} THEN "failed"
                       ELSE IF st.completedChunks = st.n THEN "completed"
                       ELSE "uploading",
             bytesUploaded |-> st.bytesUploaded, totalBytes |-> st.totalBytes,
             isPaused |-> paused]

NextAndroid ==
    \/ \E id \in Ids, fs \in env.files, n \in env.parts, p \in env.parallel :
          AndStartUpload(id, fs, n, p)
    \/ AndStartUploadRegister
    \/ AndStartUploadStarted
    \/ \E s \in 1..Len(sess) : AndJobBegin(s)
    \/ \E s \in 1..Len(sess) : \E pn \in 1..sess[s].n : AndPartBegin(s, pn)
    \/ \E s \in 1..Len(sess) : \E pn \in 1..sess[s].n : AndPartAttempt(s, pn)
    \/ \E s \in 1..Len(sess) : \E pn \in 1..sess[s].n : AndPartSend(s, pn)
    \/ \E s \in 1..Len(sess) : \E pn \in 1..sess[s].n : \E ok \in BOOLEAN : AndPartResponse(s, pn, ok)
    \/ \E s \in 1..Len(sess) : \E pn \in 1..sess[s].n : AndPartEmitCompleted(s, pn)
    \/ \E s \in 1..Len(sess) : \E pn \in 1..sess[s].n : AndPartEmitProgress(s, pn)
    \/ \E s \in 1..Len(sess) : AndJobSettle(s)
    \/ \E s \in 1..Len(sess) : AndJobCleanup(s)
    \/ \E id \in Ids : AndPauseUpload(id)
    \/ \E id \in Ids : AndResumeUpload(id)
    \/ \E id \in Ids : AndCancelUpload(id)
    \/ AndNetworkLost
    \/ AndNetworkRestored

NextIOS ==
    \/ \E id \in Ids, fs \in env.files, n \in env.parts, p \in env.parallel :
          IosStartUpload(id, fs, n, IosParallel(p))
    \/ \E id \in Ids, fs \in env.files, n \in env.parts, p \in env.parallel :
          IosStartUploadCheck(id, fs, n, IosParallel(p))
    \/ IosStartUploadRegister
    \/ IosStartUploadStarted
    \/ \E s \in 1..Len(sess) : IosStartUploadSettle(s)
    \/ \E id \in Ids : IosPauseUpload(id)
    \/ \E id \in Ids : IosResumeUpload(id)
    \/ \E id \in Ids : IosCancelUpload(id)
    \/ IosNetworkLost
    \/ IosNetworkRestored
    \/ \E s \in 1..Len(sess) : \E i \in 0..(sess[s].n - 1) : \E ok \in BOOLEAN : IosTaskFinish(s, i, ok)
    \/ \E s \in 1..Len(sess) : \E bad \in {NoChunk} \cup 0..(sess[s].n - 1) : IosQueueStep(s, bad)

\* what the callers pass unless a specification says otherwise
DefaultEnv ==
    [ids |-> 1..MaxIds, files |-> FileSizes, parts |-> 1..MaxParts,
     parallel |-> 1..MaxParallelArg, responses |-> MaxResponses]

\* the state after construction, with the inputs and budgets of one behaviour
InitEnv(e, sessions, ops, fails) ==
    /\ env = e
    /\ sess = <<>>
    /\ currentUpload = 0
    /\ activeUploads = [id \in AllIds |-> 0]
    /\ uploadStates = [id \in AllIds |-> 0]
    /\ isNetworkAvailable = TRUE
    /\ jsCall = 0
    /\ emitted = <<>>
    /\ lastCall = NoCall
    /\ cancelled = {}
    /\ sessLeft = sessions
    /\ opsLeft = ops
    /\ failsLeft = fails

InitWith(sessions, ops, fails) == InitEnv(DefaultEnv, sessions, ops, fails)

InitIOS == platform = "ios" /\ InitWith(MaxSessions, MaxOps, MaxFailures)
InitAndroid == platform = "android" /\ InitWith(MaxSessions, MaxOps, MaxFailures)
Init == InitIOS \/ InitAndroid

Next == NextIOS \/ NextAndroid

SpecIOS == InitIOS /\ [][NextIOS]_vars
SpecAndroid == InitAndroid /\ [][NextAndroid]_vars
Spec == Init /\ [][Next]_vars

\* iOS with room for repeated pause / resume
InitIOSRetry == platform = "ios" /\ InitWith(MaxSessions, MaxOpsRetry, MaxFailures)
SpecIOSRetry == InitIOSRetry /\ [][NextIOS]_vars

\* Android with an uploadId started a second time
InitAndroidReuse ==
    /\ platform = "android"
    /\ InitEnv([DefaultEnv EXCEPT !.parallel = {1}],
               MaxSessionsReuse, MaxOpsReuse, MaxFailuresReuse)
SpecAndroidReuse == InitAndroidReuse /\ [][NextAndroid]_vars

\* iOS with a second upload started after the first was cancelled
InitIOSReuse ==
    /\ platform = "ios"
    /\ InitEnv([DefaultEnv EXCEPT !.parallel = {1}],
               MaxSessionsReuse, MaxOpsReuse, MaxFailuresReuse)
SpecIOSReuse == InitIOSReuse /\ [][NextIOS]_vars

\* either platform, an uploadId used again
SpecReuse == (InitIOSReuse \/ InitAndroidReuse) /\ [][Next]_vars

\* either platform, every call of a behaviour passing the same maxParallel,
\* which may be left out, below 1 or above 10
ParallelArgs == {Omitted, 0, 1, 2, LargeParallel}
InitParallel ==
    /\ platform \in {"ios", "android"}
    /\ \E a \in ParallelArgs :
          InitEnv([DefaultEnv EXCEPT !.parallel = {a}], MaxSessions, MaxOps, MaxFailures)
SpecParallel == InitParallel /\ [][Next]_vars

\* startUpload and the planning of the parts alone, on either platform, for
\* one file (of a whole number of MiB or one byte more, missing, or of empty
\* path), one number of URLs and a uploadId that may be empty
PlanFiles == {k * MiB + r : k \in 0..MaxPlanMiB, r \in {0, 1}} \cup {NoFile, EmptyPath}
PlanParts == 0..MaxPlanParts
InitPlan ==
    /\ platform \in {"ios", "android"}
    /\ \E f \in PlanFiles, n \in PlanParts :
          InitEnv([DefaultEnv EXCEPT !.ids = {1, EmptyId}, !.files = {f}, !.parts = {n}],
                  MaxSessions, MaxOpsReuse, MaxFailuresReuse)
NextPlan ==
    \/ \E id \in Ids, fs \in env.files, n \in env.parts, p \in env.parallel :
          IosStartUpload(id, fs, n, IosParallel(p))
    \/ \E id \in Ids, fs \in env.files, n \in env.parts, p \in env.parallel :
          AndStartUpload(id, fs, n, p)
    \/ AndStartUploadRegister
    \/ AndStartUploadStarted
    \/ \E s \in 1..Len(sess) : AndJobBegin(s)
SpecPlan == InitPlan /\ [][NextPlan]_vars

\* Android with callers that upload files under different uploadIds
InitAndroidMulti ==
    /\ platform = "android"
    /\ InitEnv([DefaultEnv EXCEPT !.ids = 1..MaxIdsMulti, !.parts = 1..MaxPartsMulti],
               MaxSessionsReuse, MaxOpsReuse, MaxFailuresReuse)
SpecAndroidMulti == InitAndroidMulti /\ [][NextAndroid]_vars

\* iOS with such callers, and either platform
InitIOSMulti ==
    /\ platform = "ios"
    /\ InitEnv([DefaultEnv EXCEPT !.ids = 1..MaxIdsMulti, !.parts = 1..MaxPartsMulti],
               MaxSessionsReuse, MaxOpsReuse, MaxFailuresReuse)
SpecMulti == (InitIOSMulti \/ InitAndroidMulti) /\ [][Next]_vars

\* iOS with one file of WideParts parts and a maxParallel above the
\* documented range
InitIOSWide ==
    /\ platform = "ios"
    /\ InitEnv([DefaultEnv EXCEPT !.files = {WideFileMiB * MiB}, !.parts = {WideParts},
                                  !.parallel = {LargeParallel},
                                  !.responses = WideResponses],
               MaxSessions, MaxOpsReuse, MaxFailuresReuse)
SpecIOSWide == InitIOSWide /\ [][NextIOS]_vars

\* what the platform's scheduling guarantees: a promise body, a queued
\* block, a coroutine that can run does run, and a request that was sent is
\* answered; the callers and the connectivity owe nothing
Fairness ==
    /\ WF_vars(IosStartUploadRegister)
    /\ WF_vars(IosStartUploadStarted)
    /\ WF_vars(\E s \in 1..Len(sess) : IosStartUploadSettle(s))
    /\ WF_vars(\E s \in 1..Len(sess) : \E i \in 0..(sess[s].n - 1) : IosTaskFinish(s, i, TRUE))
    /\ WF_vars(\E s \in 1..Len(sess) : IosQueueStep(s, NoChunk))
    /\ WF_vars(AndStartUploadRegister)
    /\ WF_vars(AndStartUploadStarted)
    /\ WF_vars(\E s \in 1..Len(sess) : AndJobBegin(s))
    /\ WF_vars(\E s \in 1..Len(sess) : \E pn \in 1..sess[s].n : AndPartBegin(s, pn))
    /\ WF_vars(\E s \in 1..Len(sess) : \E pn \in 1..sess[s].n : AndPartAttempt(s, pn))
    /\ WF_vars(\E s \in 1..Len(sess) : \E pn \in 1..sess[s].n : AndPartSend(s, pn))
    /\ WF_vars(\E s \in 1..Len(sess) : \E pn \in 1..sess[s].n : AndPartResponse(s, pn, TRUE))
    /\ WF_vars(\E s \in 1..Len(sess) : \E pn \in 1..sess[s].n : AndPartEmitCompleted(s, pn))
    /\ WF_vars(\E s \in 1..Len(sess) : \E pn \in 1..sess[s].n : AndPartEmitProgress(s, pn))
    /\ WF_vars(\E s \in 1..Len(sess) : AndJobSettle(s))
    /\ WF_vars(\E s \in 1..Len(sess) : AndJobCleanup(s))

\* either platform under that scheduling, every call of a behaviour passing
\* the same maxParallel
InitLive ==
    /\ platform \in {"ios", "android"}
    /\ \E a \in ParallelArgs :
          InitEnv([DefaultEnv EXCEPT !.parallel = {a}],
                  MaxSessions, MaxOpsReuse, MaxFailuresReuse)
SpecLive == InitLive /\ [][Next]_vars /\ Fairness

(* ======================================================================= *)
(*                         Properties of the engine                        *)
(* ======================================================================= *)

Sessions == 1..Len(sess)

\* the startUpload promise of session s has been resolved or rejected
Settled(s) == sess[s].promise.status # "pending"
Succeeded(s) == sess[s].promise.status = "resolved" /\ sess[s].promise.success

\* session s is what the registry holds under some key
Registered(s) ==
    IF platform = "ios" THEN currentUpload = s
    ELSE \E id \in Ids : activeUploads[id] = s \/ uploadStates[id] = s

\* uploadId has an entry whose upload has not reached a terminal state
LiveEntry(id) ==
    IF platform = "ios"
    THEN IosFound(id) /\ ~sess[currentUpload].hasResumedContinuation
    ELSE activeUploads[id] # 0 /\ sess[activeUploads[id]].jpc \in {"launched", "running"}

\* the step is a call of the API (connectivity events also use up opsLeft)
ApiCalled == (opsLeft' < opsLeft \/ sessLeft' < sessLeft) /\ isNetworkAvailable' = isNetworkAvailable
StartCalled == ApiCalled /\ lastCall'.op = "startUpload"
CancelCalled == ApiCalled /\ lastCall'.op = "cancelUpload"
ResumeCalled == ApiCalled /\ lastCall'.op = "resumeUpload"

RegistryUnchanged ==
    /\ currentUpload' = currentUpload
    /\ activeUploads' = activeUploads
    /\ uploadStates' = uploadStates

Emitted(evs, type, id) == \E k \in 1..Len(evs) : evs[k].type = type /\ evs[k].uploadId = id

\* C1: a startUpload for an uploadId whose upload is registered and not yet
\* terminal is rejected with AlreadyInProgress and changes nothing of the first
\* upload: not the registry, not its state record, not its parts.
C1_DuplicateStartLeavesFirstUnaffected ==
    [][\A id \in Ids :
          (StartCalled /\ lastCall'.uploadId = id /\ LiveEntry(id)) =>
              /\ lastCall'.result = "AlreadyInProgress"
              /\ RegistryUnchanged
              /\ sess' = sess]_vars


\* session s is paused / transferring, in the terms of its platform
Paused(S) == IF platform = "ios" THEN S.state = "paused" ELSE S.isPaused
Uploading(S) ==
    IF platform = "ios" THEN S.state = "uploading"
    ELSE S.jpc = "running" /\ ~S.isPaused /\ ~S.jobCancelled

\* the step takes session s out of Paused on behalf of resumeUpload
ResumedByUser(s) ==
    IF platform = "ios"
    THEN /\ sess[s].queue # <<>>
         /\ Head(sess[s].queue).op = "resume"
         /\ Head(sess[s].queue).by = "user"
    ELSE ResumeCalled

\* C2: a session paused by pauseUpload leaves Paused for Uploading only through
\* resumeUpload, never through a connectivity-restored event.
C2_NetworkNeverResumesUserPause ==
    [][\A s \in Sessions :
          (Paused(sess[s]) /\ sess[s].pausedBy = "user" /\ Uploading(sess'[s]))
              => ResumedByUser(s)]_vars


\* the step has asked session s to pause / to resume
PauseUnderWay(S) ==
    IF platform = "ios"
    THEN S.state = "paused" \/ \E k \in 1..Len(S.queue) : S.queue[k].op = "pause"
    ELSE S.isPaused
ResumeUnderWay(S) ==
    IF platform = "ios"
    THEN S.state = "uploading" \/ \E k \in 1..Len(S.queue) : S.queue[k].op = "resume"
    ELSE ~S.isPaused

\* C3: for a registered session that is Uploading, a connectivity-lost event
\* emits network-lost and pauses the session; for a session paused that way, a
\* connectivity-restored event emits network-restored and resumes it.
C3_NetworkLossPausesRestoreResumes ==
    [][\A s \in Sessions :
          /\ (isNetworkAvailable /\ ~isNetworkAvailable' /\ Registered(s) /\ Uploading(sess[s]))
                => /\ Emitted(emitted', "network-lost", sess[s].uploadId)
                   /\ PauseUnderWay(sess'[s])
          /\ (~isNetworkAvailable /\ isNetworkAvailable' /\ Registered(s)
                 /\ Paused(sess[s]) /\ sess[s].pausedBy = "network")
                => /\ Emitted(emitted', "network-restored", sess[s].uploadId)
                   /\ ResumeUnderWay(sess'[s])]_vars


\* the attempts made so far agree with: one part fails at most twice before it
\* succeeds, every other part succeeds at its first attempt
TransientScenario(S) ==
    \E p \in DOMAIN S.nfail :
        /\ platform = "ios" => ~S.stuck
        /\ S.nfail[p] <= MAX_RETRIES - 1
        /\ \A q \in DOMAIN S.nfail \ {p} : S.nfail[q] = 0

\* C4: an upload in which one part fails its first two attempts and succeeds at
\* the third, and every other part succeeds, ends Completed with success = true:
\* no upload whose attempts agree with that scenario settles otherwise (unless
\* it was cancelled).
C4_TransientFailuresStillSucceed ==
    \A s \in Sessions :
        (Settled(s) /\ ~sess[s].cancelAsked /\ TransientScenario(sess[s])) => Succeeded(s)


\* C5: a result that is not a success carries no etags, and an upload one of
\* whose parts failed 3 attempts does not end as a success (unless cancelled,
\* in which case it carries no etags either).
C5_AllOrNothing ==
    \A s \in Sessions :
        Settled(s) =>
            /\ ~Succeeded(s) => sess[s].promise.etags = <<>>
            /\ (\E p \in DOMAIN sess[s].nfail : sess[s].nfail[p] >= MAX_RETRIES)
                   => ~Succeeded(s)


\* C6: a successful result has exactly one etag per upload URL, and entry i
\* (0-based) is the ETag the server returned for part i+1 of this upload (up
\* to its surrounding quotes), whatever order the parts completed in.
C6_EtagsOrderedByPartNumber ==
    \A s \in Sessions :
        Succeeded(s) =>
            /\ Len(sess[s].promise.etags) = sess[s].n
            /\ \A i \in 1..sess[s].n :
                   /\ sess[s].promise.etags[i].up = s
                   /\ sess[s].promise.etags[i].part = i

\* getUploadState(id): found, or NotFound
GetUploadState(id) ==
    IF platform = "ios" THEN IosGetUploadState(id) ELSE AndGetUploadState(id)

\* the upload of session s has reached a terminal outcome
Terminal(s) ==
    IF platform = "ios" THEN sess[s].hasResumedContinuation
    ELSE sess[s].jpc \in {"settled", "done"}

\* the outcome of session s is Cancelled
EndedCancelled(s) ==
    IF platform = "ios" THEN sess[s].state = "cancelled"
    ELSE /\ sess[s].jobCancelled
         /\ "upload-cancelled" \in sess[s].seen
         /\ sess[s].seen \cap {"upload-completed", "upload-failed"} = {}
         /\ ~Succeeded(s)

\* C7: an upload cancelled while it was not terminal and had parts in flight
\* ends Cancelled (never Completed or Failed), and from the return of cancelUpload(id) until the id is
\* started again getUploadState(id) is NotFound.
C7_CancelInFlightEndsCancelledAndNotFound ==
    /\ \A id \in cancelled : ~GetUploadState(id).found
    /\ \A s \in Sessions :
          (sess[s].cancelLive /\ sess[s].cancelInFlight /\ Terminal(s)) => EndedCancelled(s)


\* C8: cancelUpload for an id that is unknown, already cancelled or already
\* terminal returns ok and is a no-op: no registry entry and no session state
\* changes and no event is emitted.
C8_CancelIsIdempotentNoOp ==
    [][\A id \in Ids :
          (CancelCalled /\ lastCall'.uploadId = id /\ ~LiveEntry(id)) =>
              /\ lastCall'.result = "ok"
              /\ RegistryUnchanged
              /\ sess' = sess
              /\ emitted' = <<>>]_vars

\* C9: an upload cancelled while not terminal, and ended by that cancel, is not
\* reported as a failure: its startUpload promise is not rejected and no
\* upload-failed event is emitted for it.
C9_CancelledIsNotFailed ==
    \A s \in Sessions :
        (sess[s].cancelLive /\ (IF platform = "ios" THEN sess[s].state = "cancelled"
                                                    ELSE sess[s].jobCancelled)) =>
            /\ sess[s].promise.status # "rejected"
            /\ \A k \in 1..Len(emitted) :
                   ~(emitted[k].type = "upload-failed" /\ emitted[k].sid = s)

\* C10: once the startUpload promise of an upload has settled, its job has
\* finished and its startUpload call has returned, no registry table holds an
\* entry of that upload.
C10_NoEntryAfterSettled ==
    \A s \in Sessions :
        (/\ Settled(s)
         /\ jsCall # s
         /\ platform = "android" => sess[s].jpc = "done")
            => ~Registered(s)

\* session s is what the registry tables cu (currentUpload), au (activeUploads)
\* and us (uploadStates) hold
RegisteredIn(cu, au, us, s) ==
    IF platform = "ios" THEN cu = s
    ELSE \E id \in Ids : au[id] = s \/ us[id] = s

\* the step is the terminal clean-up of session s: the finally block of its
\* job (Android), the code after `await session.start()` (iOS)
CleanupOf(s) ==
    IF platform = "ios"
    THEN sess[s].pc = "awaiting" /\ sess'[s].pc = "settled"
    ELSE sess[s].jpc = "settled" /\ sess'[s].jpc = "done"

\* C11: apart from the API calls (cancelUpload, a rejected startUpload), the
\* only step that removes the registry entry of a session is the terminal
\* clean-up of that same session: the clean-up of one session never removes
\* the entry of another session registered later.
C11_CleanupRemovesOnlyOwnEntry ==
    [][\A s \in Sessions :
          (/\ ~ApiCalled
           /\ RegisteredIn(currentUpload, activeUploads, uploadStates, s)
           /\ ~RegisteredIn(currentUpload', activeUploads', uploadStates', s))
              => CleanupOf(s)]_vars

\* session s was accepted by startUpload, has started and is neither terminal
\* nor asked to cancel
Live(s) ==
    /\ ~sess[s].cancelAsked
    /\ IF platform = "ios"
       THEN sess[s].state \in {"uploading", "paused"}
       ELSE sess[s].jpc \in {"launched", "running"}

\* C12: at every moment at most one live session exists per uploadId: of two
\* startUpload calls with the same id, overlapping or not, at most one is
\* accepted while the other's upload is live.
C12_AtMostOneLiveSessionPerId ==
    \A s1, s2 \in Sessions :
        (s1 # s2 /\ Live(s1) /\ Live(s2)) => sess[s1].uploadId # sess[s2].uploadId
\* parts of session s being transferred
InFlight(s) == IF platform = "ios" THEN IosInFlight(sess[s]) ELSE AndInFlight(sess[s])

\* C13: while an upload is registered and not terminal, a startUpload call
\* for any uploadId is rejected with "Upload already in progress", and two
\* sessions never have parts in transfer at the same time
C13_OnlyOneUploadActive ==
    [][/\ (StartCalled /\ \E s \in Sessions : Registered(s) /\ Live(s))
            => lastCall'.result = "AlreadyInProgress"
       /\ \A s1, s2 \in 1..Len(sess') :
             (s1 # s2) => (InFlight(s1)' = {} \/ InFlight(s2)' = {})]_vars

\* the parallelism the documentation gives for a maxParallel argument
Clamped(maxParallel) ==
    IF maxParallel = Omitted THEN 3 ELSE Max(1, Min(10, maxParallel))

\* C14: a session runs with maxParallel clamped into [1, 10]: 0 gives 1, 25
\* gives 10, an omitted value gives 3
C14_MaxParallelClamped ==
    \A s \in Sessions : \E a \in env.parallel : sess[s].maxParallel = Clamped(a)

\* the parts planned for session s: indices, offset and size of each
PartIndices(s) == 0..(sess[s].n - 1)
PartOffset(s, i) ==
    IF platform = "ios" THEN IosOffset(sess[s], i)
    ELSE AndOffset(sess[s].totalBytes, sess[s].n, i)
PartSize(s, i) ==
    IF platform = "ios" THEN IosPartSize(sess[s], i)
    ELSE AndPartSize(sess[s].totalBytes, sess[s].n, i)
RECURSIVE SumSizes(_, _)
SumSizes(s, k) == IF k = 0 THEN 0 ELSE SumSizes(s, k - 1) + PartSize(s, k - 1)

\* the parts of session s have been planned (iOS: UploadSession.init, Android:
\* performUpload)
Planned(s) ==
    IF platform = "ios" THEN sess[s].state = "uploading" ELSE sess[s].jpc = "running"

\* C15: for a file of totalBytes > 0 and urlCount >= 1 whose parts are
\* planned, there are urlCount parts, the first at offset 0, each starting
\* where the previous one ends, none of negative size, the last ending at
\* totalBytes, and the sizes sum to totalBytes
C15_PartsPartitionTheFile ==
    \A s \in Sessions :
        (Planned(s) /\ sess[s].totalBytes > 0 /\ sess[s].n >= 1) =>
            /\ PartOffset(s, 0) = 0
            /\ \A i \in PartIndices(s) :
                  /\ PartSize(s, i) >= 0
                  /\ PartOffset(s, i) + PartSize(s, i) =
                        (IF i = sess[s].n - 1 THEN sess[s].totalBytes
                         ELSE PartOffset(s, i + 1))
            /\ SumSizes(s, sess[s].n) = sess[s].totalBytes

\* parts of an 11 MiB + 1 file over three URLs have been planned
C15_Witness ==
    \E s \in Sessions :
        Planned(s) /\ sess[s].totalBytes = 11 * MiB + 1 /\ sess[s].n = 3

\* C16: every planned part of an accepted upload of a file that is not empty
\* has a size above zero
C16_NoEmptyPart ==
    \A s \in Sessions :
        (Planned(s) /\ sess[s].totalBytes > 0 /\ sess[s].n >= 1) =>
            \A i \in PartIndices(s) : PartSize(s, i) > 0

\* C17: the parts of a file that holds urlCount - 1 minimum chunks follow the
\* fixed-chunk policy: chunkSize is the larger of
\* 5 MiB and ceil(totalBytes / urlCount), part pn of the first n - 1 has size
\* chunkSize at offset (pn - 1) * chunkSize, the last part is the remainder
C17_FixedChunkPolicy ==
    \A s \in Sessions :
        (/\ Planned(s) /\ sess[s].totalBytes > 0 /\ sess[s].n >= 1
         /\ sess[s].totalBytes >= (sess[s].n - 1) * MIN_CHUNK_SIZE) =>
            LET chunk == Max(MIN_CHUNK_SIZE, CeilDiv(sess[s].totalBytes, sess[s].n))
            IN \A pn \in 1..sess[s].n :
                  /\ PartOffset(s, pn - 1) = (pn - 1) * chunk
                  /\ PartSize(s, pn - 1) =
                        (IF pn < sess[s].n THEN chunk
                         ELSE sess[s].totalBytes - (pn - 1) * chunk)

\* what iOS plans for a file of totalBytes over n URLs
IosPlanOf(totalBytes, n) ==
    [totalBytes |-> totalBytes, chunkSize |-> IosChunkSize(totalBytes, n)]

\* C18: for a file and URL count that iOS plans parts for, Android plans the
\* same offsets and sizes as iOS
C18_AndroidPlansAsIos ==
    \A s \in Sessions :
        (/\ platform = "android" /\ Planned(s) /\ sess[s].n >= 1
         /\ IosFileLargeEnough(sess[s].totalBytes, sess[s].n)) =>
            \A i \in PartIndices(s) :
                /\ AndOffset(sess[s].totalBytes, sess[s].n, i)
                      = IosOffset(IosPlanOf(sess[s].totalBytes, sess[s].n), i)
                /\ AndPartSize(sess[s].totalBytes, sess[s].n, i)
                      = IosPartSize(IosPlanOf(sess[s].totalBytes, sess[s].n), i)

\* the file and the number of URLs every startUpload call of the behaviour
\* passes, when there is one of each
OneFile == CHOOSE f \in env.files : TRUE
OneCount == CHOOSE n \in env.parts : TRUE
OneInput == Cardinality(env.files) = 1 /\ Cardinality(env.parts) = 1

\* the call of this step was rejected as invalid and created nothing
RejectedUntouched ==
    /\ lastCall'.result = "ValidationError"
    /\ sess' = sess
    /\ RegistryUnchanged

\* C19: a startUpload call for a file shorter than (urlCount - 1) * 5 MiB is
\* rejected with a validation error, registers no session and plans no part
C19_TooSmallFileRejected ==
    [][(/\ StartCalled /\ OneInput
        /\ lastCall'.uploadId # EmptyId
        /\ OneFile > 0 /\ OneCount >= 1
        /\ OneFile < (OneCount - 1) * MIN_CHUNK_SIZE) => RejectedUntouched]_vars

\* C20: a startUpload call with an empty uploadId, an empty filePath, no
\* uploadUrls, a missing file or a file of length zero is rejected with a
\* validation error before any state is created
C20_InvalidInputRejected ==
    [][(/\ StartCalled /\ OneInput
        /\ \/ lastCall'.uploadId = EmptyId
           \/ OneFile \in {EmptyPath, NoFile, 0}
           \/ OneCount = 0) => RejectedUntouched]_vars

\* uploadId has an entry in the registry
IdRegistered(id) ==
    IF platform = "ios" THEN currentUpload # 0 /\ sess[currentUpload].uploadId = id
    ELSE activeUploads[id] # 0 \/ uploadStates[id] # 0

\* the step is a call of pauseUpload or resumeUpload for uploadId
PauseOrResumeCalled(id) ==
    /\ ApiCalled
    /\ lastCall'.op \in {"pauseUpload", "resumeUpload"}
    /\ lastCall'.uploadId = id

\* C21: for an uploadId that is not registered, getUploadState fails with
\* NotFound, and a pauseUpload or resumeUpload call fails with NotFound and
\* changes neither the registry nor any session
C21_UnknownIdIsNotFound ==
    [][\A id \in Ids :
          ~IdRegistered(id) =>
              /\ ~GetUploadState(id).found
              /\ PauseOrResumeCalled(id) =>
                    /\ lastCall'.result = "NotFound"
                    /\ RegistryUnchanged
                    /\ sess' = sess
                    /\ emitted' = <<>>]_vars

\* pauseUpload or resumeUpload has failed with NotFound for one uploadId while
\* the upload of another uploadId is registered and running
C21_Witness ==
    /\ lastCall.op \in {"pauseUpload", "resumeUpload"}
    /\ lastCall.result = "NotFound"
    /\ ~IdRegistered(lastCall.uploadId)
    /\ \E s \in Sessions :
          Registered(s) /\ Live(s) /\ sess[s].uploadId # lastCall.uploadId

\* session s was paused by pauseUpload while parts were left to upload, the
\* last of its pause / resume calls was a resumeUpload, it was not cancelled
\* and no attempt of any of its parts failed (in the transport or reading the
\* file)
PausedThenResumed(s) ==
    /\ sess[s].pauseLive
    /\ ~sess[s].userPaused
    /\ "upload-resumed" \in sess[s].seen
    /\ ~sess[s].cancelAsked
    /\ \A p \in DOMAIN sess[s].nfail : sess[s].nfail[p] = 0
    /\ "chunk-failed" \notin sess[s].seen

\* the result of session s is a success with the ETag of part i + 1 at entry i
\* (up to surrounding quotes)
SucceededInOrder(s) ==
    /\ Succeeded(s)
    /\ Len(sess[s].promise.etags) = sess[s].n
    /\ \A k \in 1..sess[s].n :
          TrimQuotes(sess[s].promise.etags[k]) = TrimQuotes(ServerETag(s, k))

\* C22: an upload paused by pauseUpload while parts were left, then resumed,
\* with no failing attempt and no cancel, does not end otherwise than as a
\* success whose etags are in partNumber order
C22_PauseResumeCompletes ==
    \A s \in Sessions : (PausedThenResumed(s) /\ Settled(s)) => SucceededInOrder(s)

\* attempts started so far for part p of session s (p in the numbering of the
\* platform: chunk index on iOS, partNumber on Android)
PartKeys(s) == DOMAIN sess[s].attempts

\* the step ends the transfer of part p of session s otherwise than by its
\* response: the part leaves the in-flight set with no response recorded or
\* queued and the session has not been cancelled
Aborted(s, p) ==
    /\ p \in InFlight(s)
    /\ p \notin InFlight(s)'
    /\ ~sess'[s].cancelAsked
    /\ IF platform = "ios" THEN sess'[s].task[p] # "finished"
       ELSE sess'[s].ppc[p] \notin {"recorded", "false", "loop"}

\* C23: in a step taken while a session is Paused no part attempt of that
\* session starts, and no part in flight is aborted
C23_PausedStartsNothingAbortsNothing ==
    [][\A s \in Sessions :
          Paused(sess[s]) =>
              \A p \in PartKeys(s) :
                  /\ sess'[s].attempts[p] = sess[s].attempts[p]
                  /\ ~Aborted(s, p)]_vars

\* bytesUploaded and the parts recorded as done of session s
BytesUploaded(s) == sess[s].bytesUploaded
DoneParts(s) ==
    IF platform = "ios" THEN sess[s].completedChunks ELSE MapKeys(sess[s].partETags)

\* pauseUpload has returned for session s, no resumeUpload call followed and
\* no connectivity-restored event has reached it
PauseInForce(S) == S.userPaused /\ "network-restored" \notin S.seen

\* C24: from the return of pauseUpload until the upload is resumed, no chunk
\* of the upload completes and its bytesUploaded does not change
C24_NothingCompletesWhilePaused ==
    [][\A s \in Sessions :
          (PauseInForce(sess[s]) /\ PauseInForce(sess'[s])) =>
              /\ BytesUploaded(s)' = BytesUploaded(s)
              /\ DoneParts(s)' = DoneParts(s)]_vars

\* the state of session s: UploadSession.state on iOS, what getUploadState
\* computes on Android while the session's state record is registered
SessionState(s) ==
    IF platform = "ios" THEN sess[s].state
    ELSE IF uploadStates[sess[s].uploadId] = s
         THEN AndGetUploadState(sess[s].uploadId).state
         ELSE "unregistered"

\* the transitions of the state machine
AllowedTransitions ==
    {<<"idle", "uploading">>, <<"uploading", "paused">>, <<"paused", "uploading">>,
     <<"uploading", "completed">>, <<"uploading", "failed">>}
        \cup {<<x, "cancelled">> : x \in {"idle", "uploading", "paused"}}

\* C25: the state of a session changes only along Idle -> Uploading,
\* Uploading <-> Paused, Uploading -> Completed, Uploading -> Failed and
\* non-terminal -> Cancelled; never from Paused to Completed or Failed
C25_OnlyAllowedTransitions ==
    [][\A s \in Sessions :
          (/\ SessionState(s) # "unregistered"
           /\ SessionState(s)' # "unregistered"
           /\ SessionState(s)' # SessionState(s))
              => <<SessionState(s), SessionState(s)'>> \in AllowedTransitions]_vars

\* what the part table of session s holds
PartTable(s) ==
    IF platform = "ios" THEN <<sess[s].completedChunks, sess[s].etags>>
    ELSE <<sess[s].partETags, sess[s].completedChunks, sess[s].failedChunks>>

\* C26: once the state of a session is Completed, Failed or Cancelled, its
\* state, its bytesUploaded and its part table do not change again
C26_TerminalStatesAbsorb ==
    [][\A s \in Sessions :
          (/\ SessionState(s) \in {"completed", "failed", "cancelled"}
           /\ SessionState(s)' # "unregistered")
              => /\ SessionState(s)' = SessionState(s)
                 /\ BytesUploaded(s)' = BytesUploaded(s)
                 /\ PartTable(s)' = PartTable(s)]_vars

\* 0-based indices of the parts recorded as done of session s
DoneIndices(s) ==
    IF platform = "ios" THEN sess[s].completedChunks
    ELSE {pn - 1 : pn \in MapKeys(sess[s].partETags)}

\* sum of the planned sizes of a set of parts of session s
RECURSIVE SizeOf(_, _)
SizeOf(s, parts) ==
    IF parts = {} THEN 0
    ELSE LET i == CHOOSE x \in parts : TRUE
         IN PartSize(s, i) + SizeOf(s, parts \ {i})

\* C27: bytesUploaded is the sum of the sizes of the Done parts, and equals
\* totalBytes exactly when the state is Completed
C27_BytesMatchDoneParts ==
    \A s \in Sessions :
        SessionState(s) # "unregistered" =>
            /\ BytesUploaded(s) = SizeOf(s, DoneIndices(s))
            /\ (BytesUploaded(s) = sess[s].totalBytes) <=> (SessionState(s) = "completed")

\* C28: bytesUploaded of a session never decreases, never exceeds totalBytes,
\* and grows in every step by exactly the sizes of the parts that became Done
\* in that step
C28_BytesMonotonicAndExact ==
    [][\A s \in Sessions :
          /\ BytesUploaded(s)' >= BytesUploaded(s)
          /\ BytesUploaded(s)' <= sess[s].totalBytes
          /\ BytesUploaded(s)' - BytesUploaded(s)
                = SizeOf(s, DoneIndices(s)' \ DoneIndices(s))]_vars

\* C29: the upload-progress events of one upload reach the listeners with
\* non-decreasing bytesUploaded: an upload-progress event handed to the
\* listeners in a step carries at least the value of the last one delivered
\* before it for the same upload
C29_ProgressEventsInOrder ==
    [][\A k \in 1..Len(emitted') :
          emitted'[k].type = "upload-progress"
             => emitted'[k].arg >= sess[emitted'[k].sid].lastProgress]_vars

\* the pool size the documentation gives session s: maxParallel clamped into
\* [1, 10]
EffectiveParallel(s) == Max(1, Min(10, sess[s].maxParallel))

\* the part attempts of session s in flight: the keys of activeTasks on iOS,
\* the parts holding a permit of the semaphore on Android
PoolUsed(s) ==
    IF platform = "ios" THEN IosActive(sess[s]) ELSE AndHolders(sess[s])

\* C30: at every moment the number of part attempts in flight for an upload
\* is at most its effective maxParallel
C30_InFlightWithinMaxParallel ==
    \A s \in Sessions : Cardinality(PoolUsed(s)) <= EffectiveParallel(s)

\* C31: every accepted startUpload settles unless its session stays Paused
\* for ever: the upload reaches a terminal outcome and the promise of
\* startUpload is resolved or rejected, whatever maxParallel was passed
C31_EveryUploadSettles ==
    \A s \in 1..MaxSessions :
        \/ [](Len(sess) >= s => <>(Len(sess) >= s /\ Terminal(s) /\ Settled(s)))
        \/ <>[](Len(sess) >= s /\ Paused(sess[s]))

\* C32: no part of an upload is attempted more than MAX_RETRIES times: a part
\* that has failed MAX_RETRIES attempts is not dispatched again
C32_AtMostMaxRetriesAttempts ==
    \A s \in Sessions : \A p \in PartKeys(s) : sess[s].attempts[p] <= MAX_RETRIES

\* the upload of session s has concluded Failed
ConcludedFailed(s) ==
    IF platform = "ios" THEN sess[s].state = "failed"
    ELSE "upload-failed" \in sess[s].seen

\* part p of session s is neither pending nor in flight: on iOS it is
\* completed, or an attempt of it has failed (its task, or the read that
\* precedes it); on Android uploadPart has returned for it
PartAtRest(s, p) ==
    IF platform = "ios"
    THEN \/ p \in sess[s].completedChunks
         \/ sess[s].nfail[p] > 0
         \/ sess[s].stuck /\ p \in IosPending(sess[s])
                          /\ \A q \in IosPending(sess[s]) : p <= q
    ELSE sess[s].ppc[p] \in {"true", "false"}

\* C33: an upload concludes Failed only once none of its parts is pending or
\* in flight: every part is Done or has failed
C33_FailedOnlyWhenDrained ==
    \A s \in Sessions :
        ConcludedFailed(s) => \A p \in PartKeys(s) : PartAtRest(s, p)

\* C34: once cancelUpload has returned for the upload of session s (its
\* upload-cancelled event is out), no part of it completes: no ETag is
\* recorded, bytesUploaded does not change, and no chunk-completed or
\* upload-progress event of it is emitted
C34_NothingCompletesAfterCancel ==
    [][\A s \in Sessions :
          sess[s].cancelAsked =>
              /\ DoneParts(s)' = DoneParts(s)
              /\ BytesUploaded(s)' = BytesUploaded(s)
              /\ \A k \in 1..Len(emitted') :
                    emitted'[k].sid = s =>
                        emitted'[k].type \notin {"chunk-completed", "upload-progress"}]_vars

\* an attempt of part p of session s is in flight
AttemptInFlight(s, p) ==
    IF platform = "ios" THEN sess[s].task[p] # "none"
    ELSE sess[s].ppc[p] = "inflight"

\* C35: each part is uploaded once: an attempt of a part starts only while the
\* part is not Done and no other attempt of it is in flight
C35_DonePartNeverDispatchedAgain ==
    [][\A s \in Sessions : \A p \in PartKeys(s) :
          sess'[s].attempts[p] > sess[s].attempts[p] =>
              /\ p \notin DoneParts(s)
              /\ ~AttemptInFlight(s, p)
              /\ sess'[s].attempts[p] = sess[s].attempts[p] + 1]_vars

\* the step is a failed attempt of a part of session s that leaves the part
\* attempts: on iOS the read or write of uploadChunk throws while no chunk
\* has failed MAX_RETRIES - 1 times, on Android the try block of uploadPart
\* (readChunk, the PUT) throws for a part below MAX_RETRIES failures
RetryableFailure(s) ==
    IF platform = "ios"
    THEN /\ ~sess[s].stuck /\ sess'[s].stuck
         /\ \A p \in PartKeys(s) : sess[s].nfail[p] + 1 < MAX_RETRIES
    ELSE \E p \in PartKeys(s) :
            /\ sess'[s].nfail[p] = sess[s].nfail[p] + 1
            /\ sess'[s].nfail[p] < MAX_RETRIES

\* C36: a failed read of a part is a retryable failure of that attempt: while
\* attempts of the part remain it does not end the upload
C36_ReadFailureIsRetryable ==
    [][\A s \in Sessions :
          (Len(sess') >= s /\ ~ConcludedFailed(s) /\ RetryableFailure(s))
              => ~ConcludedFailed(s)']_vars

\* the terminal events emitted for session s so far
TerminalSeen(s) == sess[s].seen \cap TerminalEvents

\* C37: for an accepted startUpload at most one terminal event is emitted,
\* and once startUpload has settled there is exactly one and it agrees with
\* the result: upload-completed exactly for a success
C37_OneTerminalEventAgreeingWithResult ==
    \A s \in Sessions :
        /\ Cardinality(TerminalSeen(s)) <= 1
        /\ Settled(s) =>
              /\ Cardinality(TerminalSeen(s)) = 1
              /\ Succeeded(s) <=> "upload-completed" \in sess[s].seen

\* C38: upload-started is the first event of an upload: no chunk-completed,
\* chunk-failed, upload-progress or terminal event of it is emitted before
\* its upload-started
C38_UploadStartedComesFirst ==
    \A s \in Sessions :
        sess[s].seen \cap ({"chunk-completed", "chunk-failed", "upload-progress"}
                              \cup TerminalEvents) # {}
            => "upload-started" \in sess[s].seen

\* C39: upload-paused and upload-resumed report transitions: a pauseUpload
\* emits upload-paused only for a session that was transferring (or about to
\* resume), a resumeUpload emits upload-resumed only for a session that was
\* paused (or about to pause)
C39_PauseResumeEventsAreTransitions ==
    [][\A k \in 1..Len(emitted') :
          (ApiCalled /\ emitted'[k].sid \in Sessions) =>
              /\ emitted'[k].type = "upload-resumed"
                    => PauseUnderWay(sess[emitted'[k].sid])
              /\ emitted'[k].type = "upload-paused"
                    => ResumeUnderWay(sess[emitted'[k].sid])]_vars

\* C40: every run of the dispatch loop of uploadNextChunks returns, also when
\* preparing a chunk fails locally, so that the serial queue of the session
\* goes on to its next block: no session is left with a block that does not
\* return
C40_DispatchLoopReturns ==
    \A s \in Sessions : platform = "ios" => ~sess[s].stuck

====
